---- MODULE Spec2Model ----
(***************************************************************************)
(* A model of lastpass2keepass.py: one run of main(), from the command     *)
(* line to the exit of the process.  Text is modelled character by         *)
(* character: a string is a sequence of one-character strings.             *)
(***************************************************************************)
EXTENDS Integers, Sequences, FiniteSets, TLC

(***************************************************************************)
(* Bounds of the model.                                                    *)
(***************************************************************************)
\* The largest number of logical data records in the raw export.
MaxRecords == 2
\* The largest number of minutes the clock advances while entries are added.
MaxTicks == 1

(***************************************************************************)
(* Text helpers: the str methods and regular expressions the program uses. *)
(***************************************************************************)
NL == "\n"
QUOTE == "\""
COMMA == ","

\* The characters of the model in ascending byte order (str comparison in
\* Python 2 is bytewise).
Ascii ==
    << "\t", "\n", " ", "\"", ",", "0", "1", "2", "3", "_",
       "a", "b", "c", "d", "e", "f", "g", "h", "i", "k", "l", "m", "n",
       "o", "p", "r", "s", "t", "u", "v", "w", "x", "y", "z", "|" >>

Ord(c) == CHOOSE i \in 1..Len(Ascii) : Ascii[i] = c

Whitespace == {" ", "\t", "\n"}
Digits == {"0", "1", "2", "3"}

RECURSIVE Flatten(_)
Flatten(ss) == IF ss = <<>> THEN <<>> ELSE Head(ss) \o Flatten(Tail(ss))

StartsWith(s, p) == Len(s) >= Len(p) /\ SubSeq(s, 1, Len(p)) = p

\* The least and the greatest member of a non-empty set of positions.
First(S) == CHOOSE i \in S : \A j \in S : i <= j
Last(S) == CHOOSE i \in S : \A j \in S : j <= i

\* s.strip(chars): the characters of `chars` removed from both ends.
StripChars(s, chars) ==
    LET keep == {i \in 1..Len(s) : s[i] \notin chars}
    IN  IF keep = {} THEN <<>> ELSE SubSeq(s, First(keep), Last(keep))

\* str.strip()
Strip(s) == StripChars(s, Whitespace)

\* str.strip('"')
StripQuote(s) == StripChars(s, {QUOTE})

\* The placeholder of a line break inside a field: '|\t|'.
Sentinel == << "|", "\t", "|" >>

\* The positions at which `old` occurs in s.
Occurrences(s, old) ==
    {i \in 1..(Len(s) - Len(old) + 1) : SubSeq(s, i, i + Len(old) - 1) = old}

\* str.replace(old, new): leftmost non-overlapping occurrences.
RECURSIVE Replace(_, _, _)
Replace(s, old, new) ==
    IF Occurrences(s, old) = {} THEN s
    ELSE LET i == First(Occurrences(s, old))
         IN  SubSeq(s, 1, i - 1) \o new
             \o Replace(SubSeq(s, i + Len(old), Len(s)), old, new)

\* file.readlines(): the text cut after every line break.
RECURSIVE ReadLines(_)
ReadLines(text) ==
    IF text = <<>> THEN <<>>
    ELSE IF Occurrences(text, <<NL>>) = {} THEN <<text>>
    ELSE LET i == First(Occurrences(text, <<NL>>))
         IN  <<SubSeq(text, 1, i)>> \o ReadLines(SubSeq(text, i + 1, Len(text)))

\* ROW_START_REGEX.match(line): '^http'.
RowStartMatch(line) == StartsWith(line, << "h", "t", "t", "p" >>)

\* DELIMITER_REGEX.search(line): ',\d\n' anywhere in the line.
DelimiterSearch(line) ==
    \E i \in 1..(Len(line) - 2) :
        line[i] = COMMA /\ line[i + 1] \in Digits /\ line[i + 2] = NL

\* What the loop body of parse_and_write_temp_csv writes for one line; the
\* faulty variant takes the first branch for every line.
NormalizedLineAlwaysBreak(line) == <<NL>> \o Strip(line)
NormalizedLine(line) ==
    IF RowStartMatch(line) THEN <<NL>> \o Strip(line)
    ELSE IF DelimiterSearch(line) THEN Strip(line)
    ELSE Replace(line, <<NL>>, Sentinel)

(***************************************************************************)
(* csv.reader(output_file, delimiter=',', quotechar='"'): the parser of    *)
(* CPython 2's _csv module in its default, non-strict dialect.  NUL is the *)
(* end-of-line call parse_process_char(self, 0).                           *)
(***************************************************************************)
NUL == "NUL"

CsvInit == [st |-> "START_RECORD", field |-> <<>>, fields |-> <<>>, rows |-> <<>>]

CsvSaveField(p, st) ==
    [p EXCEPT !.fields = Append(p.fields, p.field), !.field = <<>>, !.st = st]

CsvAddChar(p, c, st) == [p EXCEPT !.field = Append(p.field, c), !.st = st]

CsvAfterBreak(c) == IF c = NUL THEN "START_RECORD" ELSE "EAT_CRNL"

CsvStartField(p, c) ==
    IF c \in {NL, NUL} THEN CsvSaveField(p, CsvAfterBreak(c))
    ELSE IF c = QUOTE THEN [p EXCEPT !.st = "IN_QUOTED_FIELD"]
    ELSE IF c = COMMA THEN CsvSaveField(p, "START_FIELD")
    ELSE CsvAddChar(p, c, "IN_FIELD")

CsvChar(p, c) ==
    CASE p.st = "START_RECORD" ->
            IF c = NUL THEN p
            ELSE IF c = NL THEN [p EXCEPT !.st = "EAT_CRNL"]
            ELSE CsvStartField(p, c)
      [] p.st = "START_FIELD" -> CsvStartField(p, c)
      [] p.st = "IN_FIELD" ->
            IF c \in {NL, NUL} THEN CsvSaveField(p, CsvAfterBreak(c))
            ELSE IF c = COMMA THEN CsvSaveField(p, "START_FIELD")
            ELSE CsvAddChar(p, c, "IN_FIELD")
      [] p.st = "IN_QUOTED_FIELD" ->
            IF c = NUL THEN p
            ELSE IF c = QUOTE THEN [p EXCEPT !.st = "QUOTE_IN_QUOTED_FIELD"]
            ELSE CsvAddChar(p, c, "IN_QUOTED_FIELD")
      [] p.st = "QUOTE_IN_QUOTED_FIELD" ->
            IF c = QUOTE THEN CsvAddChar(p, c, "IN_QUOTED_FIELD")
            ELSE IF c = COMMA THEN CsvSaveField(p, "START_FIELD")
            ELSE IF c \in {NL, NUL} THEN CsvSaveField(p, CsvAfterBreak(c))
            ELSE CsvAddChar(p, c, "IN_FIELD")
      [] p.st = "EAT_CRNL" ->
            IF c = NL THEN p
            ELSE IF c = NUL THEN [p EXCEPT !.st = "START_RECORD"]
            ELSE [p EXCEPT !.st = "ERROR"]
      [] OTHER -> p

\* Reader_iternext: a record is returned when a line ends in START_RECORD.
CsvEndLine(p) ==
    LET q == CsvChar(p, NUL)
    IN  IF q.st = "START_RECORD"
        THEN [q EXCEPT !.rows = Append(q.rows, q.fields), !.fields = <<>>]
        ELSE q

\* Reader_iternext at the end of the input: a pending field is saved and the
\* record returned (the dialect is not strict).
CsvEndInput(p) ==
    IF p.field # <<>> \/ p.st = "IN_QUOTED_FIELD"
    THEN Append(p.rows, Append(p.fields, p.field))
    ELSE p.rows

\* One character of a line, and the end-of-line call after a line break.
CsvStep(p, c) == IF c = NL THEN CsvEndLine(CsvChar(p, c)) ELSE CsvChar(p, c)

\* The characters text[lo..hi] in order, from the parser state p; an error
\* ends the parse.
RECURSIVE CsvRun(_, _, _, _)
CsvRun(text, p, lo, hi) ==
    IF lo > hi THEN p
    ELSE IF lo = hi THEN CsvStep(p, text[lo])
    ELSE LET mid == (lo + hi) \div 2
             q == CsvRun(text, p, lo, mid)
         IN  IF q.st = "ERROR" THEN q ELSE CsvRun(text, q, mid + 1, hi)

\* The parser after the last line of the text.
CsvParse(text) ==
    LET p == CsvRun(text, CsvInit, 1, Len(text))
    IN  IF p.st # "ERROR" /\ text # <<>> /\ text[Len(text)] # NL
        THEN CsvEndLine(p) ELSE p

\* [row for row in reader]; csv.Error is raised from the parser state ERROR.
CsvRows(text) == CsvEndInput(CsvParse(text))
CsvRaises(text) == CsvParse(text).st = "ERROR"

(***************************************************************************)
(* sort_entries_by_category.  A row is a sequence of fields; entry[k] of   *)
(* the program is Field(entry, k).                                         *)
(***************************************************************************)
Field(row, k) == row[k + 1]

\* cmp() of Python 2 on str: bytewise, a proper prefix is the smaller.
RECURSIVE StrCmp(_, _)
StrCmp(a, b) ==
    IF a = <<>> THEN (IF b = <<>> THEN 0 ELSE -1)
    ELSE IF b = <<>> THEN 1
    ELSE IF Head(a) = Head(b) THEN StrCmp(Tail(a), Tail(b))
    ELSE IF Ord(Head(a)) < Ord(Head(b)) THEN -1 ELSE 1

\* cmp() on a list of str (one row).
RECURSIVE RowCmp(_, _)
RowCmp(a, b) ==
    IF a = <<>> THEN (IF b = <<>> THEN 0 ELSE -1)
    ELSE IF b = <<>> THEN 1
    ELSE LET c == StrCmp(Head(a), Head(b))
         IN  IF c = 0 THEN RowCmp(Tail(a), Tail(b)) ELSE c

\* cmp() on a list of rows (the entry list of one category).
RECURSIVE ListCmp(_, _)
ListCmp(a, b) ==
    IF a = <<>> THEN (IF b = <<>> THEN 0 ELSE -1)
    ELSE IF b = <<>> THEN 1
    ELSE LET c == RowCmp(Head(a), Head(b))
         IN  IF c = 0 THEN ListCmp(Tail(a), Tail(b)) ELSE c

\* A dictionary item is a pair <<category, entries>>; the sort key of line
\* 119 is x[1], the entries (the faulty variant takes x[0], the name).
ItemKeyByName(item) == << <<item[1]>> >>
ItemKey(item) == item[2]

\* categories[category].append(entry) / categories[category] = [entry]; the
\* faulty variant assigns [entry] to a category already present.
RECURSIVE DictAdd(_, _, _)
RECURSIVE DictAddOverwrite(_, _, _)
DictAddOverwrite(items, category, entry) ==
    IF items = <<>> THEN << <<category, <<entry>> >> >>
    ELSE IF Head(items)[1] = category
         THEN << <<category, <<entry>> >> >> \o Tail(items)
         ELSE <<Head(items)>> \o DictAddOverwrite(Tail(items), category, entry)

DictAdd(items, category, entry) ==
    IF items = <<>> THEN << <<category, <<entry>> >> >>
    ELSE IF Head(items)[1] = category
         THEN << <<category, Append(Head(items)[2], entry)>> >> \o Tail(items)
         ELSE <<Head(items)>> \o DictAdd(Tail(items), category, entry)

\* The loop of lines 113-118: categories.items() in first-seen order.
RECURSIVE GroupLoop(_, _)
GroupLoop(entries, items) ==
    IF entries = <<>> THEN items
    ELSE GroupLoop(Tail(entries),
            DictAdd(items, Field(Head(entries), 5), Head(entries)))

\* sorted(items, key=...): a stable sort; an item goes after every item whose
\* key is not greater.
RECURSIVE Insert(_, _)
Insert(sorted, item) ==
    IF sorted = <<>> THEN <<item>>
    ELSE IF ListCmp(ItemKey(item), ItemKey(Head(sorted))) < 0
         THEN <<item>> \o sorted
         ELSE <<Head(sorted)>> \o Insert(Tail(sorted), item)

RECURSIVE Sorted(_)
Sorted(items) ==
    IF items = <<>> THEN <<>>
    ELSE Insert(Sorted(SubSeq(items, 1, Len(items) - 1)), items[Len(items)])

\* The entry[5] of line 114 raises IndexError on a row of fewer than 6 fields.
RowsIndexable(entries) == \A i \in 1..Len(entries) : Len(entries[i]) >= 6

sort_entries_by_category(entries) == Sorted(GroupLoop(entries, <<>>))

(***************************************************************************)
(* add_entry and add_category: the elements of the document.  An entry     *)
(* element is the sequence of its children, each a pair <<name, text>>.    *)
(***************************************************************************)
\* The keys of element_name_to_element_text as the dict literal lists them.
LiteralOrder ==
    << "title", "username", "password", "url", "comment", "icon",
       "creation", "lastaccess", "lastmod", "expire" >>

\* The order in which CPython 2 iterates over that dict (the string hash and
\* the 16-slot table of a dict of ten items; the same on 32 and 64 bits).
HashOrder ==
    << "username", "comment", "creation", "expire", "title", "url",
       "lastmod", "password", "lastaccess", "icon" >>

\* dict.items() has no specified order in Python 2: CPython gives the hash
\* order, an implementation with ordered dicts (PyPy) the literal's.
ItemsOrders == {HashOrder, LiteralOrder}

\* datetime.datetime.now().strftime("%Y-%m-%dT%H:%M"): the minute, as text.
FormatTime(t) == << "t", Ascii[6 + (t % 4)] >>

\* Line 153.
CommentText(entry) == StripQuote(Replace(Field(entry, 3), Sentinel, <<NL>>))

\* The text of each child of an entry element (lines 147-159); the
\* faulty variant reads the clock a second time for lastmod.
ElementTextStale(entry, now, name) ==
    CASE name = "title" -> Field(entry, 4)
      [] name = "username" -> Field(entry, 1)
      [] name = "password" -> Field(entry, 2)
      [] name = "url" -> Field(entry, 0)
      [] name = "comment" -> CommentText(entry)
      [] name = "icon" -> <<"0">>
      [] name = "creation" -> FormatTime(now)
      [] name = "lastaccess" -> Field(entry, 5)
      [] name = "lastmod" -> FormatTime(now + 1)
      [] name = "expire" -> << "N", "e", "v", "e", "r" >>

ElementText(entry, now, name) ==
    CASE name = "title" -> Field(entry, 4)
      [] name = "username" -> Field(entry, 1)
      [] name = "password" -> Field(entry, 2)
      [] name = "url" -> Field(entry, 0)
      [] name = "comment" -> CommentText(entry)
      [] name = "icon" -> <<"0">>
      [] name = "creation" -> FormatTime(now)
      [] name = "lastaccess" -> Field(entry, 5)
      [] name = "lastmod" -> FormatTime(now)
      [] name = "expire" -> << "N", "e", "v", "e", "r" >>

\* The loop of lines 160-162 over the dict's items, in the order `order`.
EntryElement(entry, now, order) ==
    [i \in 1..Len(order) |-> <<order[i], ElementText(entry, now, order[i])>>]

\* The text of the child `name` of an entry element.
Child(element, name) ==
    LET i == CHOOSE j \in 1..Len(element) : element[j][1] = name
    IN  element[i][2]

ChildNames(element) == [i \in 1..Len(element) |-> element[i][1]]

(***************************************************************************)
(* The raw export: a header line and one line group per logical record, in *)
(* the format of the module docstring (lines 8-9).                         *)
(***************************************************************************)
HeaderLine ==
    << "u", "r", "l", ",", "u", "s", "e", "r", ",", "p", "a", "s", "s", ",",
       "e", "x", "t", "r", "a", ",", "n", "a", "m", "e", ",",
       "g", "r", "o", "u", "p", "i", "n", "g", ",",
       "l", "a", "s", "t", "_", "t", "o", "u", "c", "h", ",",
       "l", "a", "u", "n", "c", "h", "_", "c", "o", "u", "n", "t", ",",
       "f", "a", "v", "\n" >>

Urls == { << "h", "t", "t", "p", "a" >>, << "h", "t", "t", "p", "b" >> }
Notes == { << "x" >>, << "x", "\n", "y" >>, << "x", "\n", "y", "\n", "z" >> }
Groups == { << "g" >>, << "h" >> }

\* A logical record: a full one of nine fields, or a short one of two.
LogicalRecords ==
    [short : {FALSE}, url : Urls, note : Notes, grp : Groups]
    \cup [short : {TRUE}, url : {<< "h", "t", "t", "p", "a" >>},
          note : {<< "x" >>}, grp : {<< "g" >>}]

HasBreak(s) == \E i \in 1..Len(s) : s[i] = NL

\* A field is quoted by the exporter when it holds a line break, a comma or
\* a quote; a quote inside is doubled.
ExportField(s) ==
    IF \E i \in 1..Len(s) : s[i] \in {NL, COMMA, QUOTE}
    THEN <<QUOTE>> \o Replace(s, <<QUOTE>>, <<QUOTE, QUOTE>>) \o <<QUOTE>>
    ELSE s

ExportRecord(r) ==
    IF r.short THEN r.url \o << ",", "u", "\n" >>
    ELSE r.url \o << ",", "u", ",", "p", "," >> \o ExportField(r.note)
         \o << ",", "n", "," >> \o r.grp \o << ",", "2", ",", "3", ",", "0", "\n" >>

ExportText(header, recs) ==
    (IF header THEN HeaderLine ELSE <<>>)
    \o Flatten([i \in 1..Len(recs) |-> ExportRecord(recs[i])])

RecordSeqs == UNION {[1..n -> LogicalRecords] : n \in 0..MaxRecords}

\* A file of the file system.
NoFile == [exists |-> FALSE, text |-> <<>>, doctype |-> FALSE, doc |-> <<>>]
TextFile(text) == [exists |-> TRUE, text |-> text, doctype |-> FALSE, doc |-> <<>>]
\* write_output: the doctype line, then the serialized tree.
DocumentFile(page) == [exists |-> TRUE, text |-> <<>>, doctype |-> TRUE, doc |-> page]

(***************************************************************************)
(* The run.                                                                *)
(***************************************************************************)
VARIABLES
    pc,          \* the statement of main() the run is at
    records,     \* the logical records the raw export was written from
    withHeader,  \* whether the raw export starts with the header line
    inFile,      \* the text of the file at input_file_path
    outFile0,    \* the file at output_file_path before the run
    outFile,     \* the file at output_file_path
    inHandle,    \* input_file: "none", "open" or "closed"
    outHandle,   \* output_file (append mode): "none", "open" or "closed"
    lines,       \* input_file.readlines()
    lineIdx,     \* the line the loop of parse_and_write_temp_csv is at
    entries,     \* the rows after entries.pop(0)
    categories,  \* the result of sort_entries_by_category
    page,        \* the children of the database element: the groups
    catIdx,      \* the category add_category is called with next
    entIdx,      \* the entry add_entry is called with next
    itemsOrder,  \* the order in which the dict of add_entry is iterated
    clock,       \* the local time in minutes
    printed,     \* the messages printed so far
    exitStatus,  \* the exit status of the process, -1 while it runs
    error        \* the error kind the run met, "none" if none

vars ==
    << pc, records, withHeader, inFile, outFile0, outFile, inHandle, outHandle,
       lines, lineIdx, entries, categories, page, catIdx, entIdx, itemsOrder,
       clock, printed, exitStatus, error >>

Init ==
    /\ pc = "get_file_paths"
    /\ records \in RecordSeqs
    /\ withHeader \in BOOLEAN
    /\ inFile = ExportText(withHeader, records)
    /\ outFile0 \in {NoFile, TextFile(<< "o", "l", "d" >>)}
    /\ outFile = outFile0
    /\ inHandle = "none"
    /\ outHandle = "none"
    /\ lines = <<>>
    /\ lineIdx = 1
    /\ entries = <<>>
    /\ categories = <<>>
    /\ page = <<>>
    /\ catIdx = 1
    /\ entIdx = 1
    /\ itemsOrder = <<>>
    /\ clock = 0
    /\ printed = <<>>
    /\ exitStatus = -1
    /\ error = "none"

\* print_and_exit: the message between two rules, then sys.exit() with no
\* argument, which is exit status 0.
PrintAndExit(message, kind) ==
    /\ printed' = Append(printed, message)
    /\ exitStatus' = 0
    /\ error' = kind
    /\ pc' = "exited"

\* An exception nobody catches: the traceback, and exit status 1.
Uncaught(kind) ==
    /\ printed' = Append(printed, "traceback")
    /\ exitStatus' = 1
    /\ error' = kind
    /\ pc' = "exited"

\* get_file_paths: sys.argv[1], or the usage message.
GetFilePaths ==
    /\ pc = "get_file_paths"
    /\ \E hasArgument \in BOOLEAN :
        IF hasArgument
        THEN /\ pc' = "open_input"
             /\ UNCHANGED <<printed, exitStatus, error>>
        ELSE PrintAndExit("usage", "MissingArgument")
    /\ UNCHANGED << records, withHeader, inFile, outFile0, outFile, inHandle,
                    outHandle, lines, lineIdx, entries, categories, page,
                    catIdx, entIdx, itemsOrder, clock >>

\* get_initial_file_handles, lines 77-81: open(input_file_path); the faulty
\* variant truncates the output path first.
OpenInputTruncating ==
    /\ pc = "open_input"
    /\ outFile' = TextFile(<<>>)
    /\ \E readable \in BOOLEAN :
        IF readable
        THEN /\ inHandle' = "open"
             /\ pc' = "open_output"
             /\ UNCHANGED <<printed, exitStatus, error>>
        ELSE /\ PrintAndExit("cannot_read", "FileReadError")
             /\ UNCHANGED inHandle
    /\ UNCHANGED << records, withHeader, inFile, outFile0, outHandle,
                    lines, lineIdx, entries, categories, page, catIdx, entIdx,
                    itemsOrder, clock >>

OpenInput ==
    /\ pc = "open_input"
    /\ \E readable \in BOOLEAN :
        IF readable
        THEN /\ inHandle' = "open"
             /\ pc' = "open_output"
             /\ UNCHANGED <<printed, exitStatus, error>>
        ELSE /\ PrintAndExit("cannot_read", "FileReadError")
             /\ UNCHANGED inHandle
    /\ UNCHANGED << records, withHeader, inFile, outFile0, outFile, outHandle,
                    lines, lineIdx, entries, categories, page, catIdx, entIdx,
                    itemsOrder, clock >>

\* get_initial_file_handles, lines 82-89: the output path truncated, then
\* opened for appending; readlines() of line 60 follows.
OpenOutput ==
    /\ pc = "open_output"
    /\ \E writable \in BOOLEAN :
        IF writable
        THEN /\ outFile' = TextFile(<<>>)
             /\ outHandle' = "open"
             /\ lines' = ReadLines(inFile)
             /\ lineIdx' = 1
             /\ pc' = "normalize"
             /\ UNCHANGED <<printed, exitStatus, error>>
        ELSE /\ PrintAndExit("cannot_write", "FileWriteError")
             /\ UNCHANGED <<outFile, outHandle, lines, lineIdx>>
    /\ UNCHANGED << records, withHeader, inFile, outFile0, inHandle, entries,
                    categories, page, catIdx, entIdx, itemsOrder, clock >>

\* One pass of the loop of lines 60-69.
NormalizeLine ==
    /\ pc = "normalize"
    /\ lineIdx <= Len(lines)
    /\ outFile' = TextFile(outFile.text \o NormalizedLine(lines[lineIdx]))
    /\ lineIdx' = lineIdx + 1
    /\ UNCHANGED << pc, records, withHeader, inFile, outFile0, inHandle,
                    outHandle, lines, entries, categories, page, catIdx,
                    entIdx, itemsOrder, clock, printed, exitStatus, error >>

\* Lines 71-72.
CloseHandles ==
    /\ pc = "normalize"
    /\ lineIdx > Len(lines)
    /\ inHandle' = "closed"
    /\ outHandle' = "closed"
    /\ pc' = "read_temp_file"
    /\ UNCHANGED << records, withHeader, inFile, outFile0, outFile, lines,
                    lineIdx, entries, categories, page, catIdx, entIdx,
                    itemsOrder, clock, printed, exitStatus, error >>

\* read_temp_file up to line 101: the rows and what entries.pop(0) leaves;
\* pop(0) of an empty list raises IndexError.  The faulty variant drops the first
\* row with a slice, which does not raise.
HeaderPoppedBySlice(rows) ==
    [raised |-> FALSE, rest |-> IF rows = <<>> THEN <<>> ELSE Tail(rows)]

HeaderPopped(rows) ==
    IF rows = <<>> THEN [raised |-> TRUE, rest |-> <<>>]
    ELSE [raised |-> FALSE, rest |-> Tail(rows)]

\* read_temp_file with sort_entries_by_category; the file is opened and
\* closed by the with statement.
ReadTempFile ==
    /\ pc = "read_temp_file"
    /\ IF CsvRaises(outFile.text)
       THEN /\ Uncaught("ParseError")
            /\ UNCHANGED <<entries, categories>>
       ELSE LET popped == HeaderPopped(CsvRows(outFile.text))
            IN  IF popped.raised
                THEN /\ Uncaught("MissingHeaderError")
                     /\ UNCHANGED <<entries, categories>>
                ELSE /\ entries' = popped.rest
                     /\ IF RowsIndexable(popped.rest)
                        THEN /\ categories' = sort_entries_by_category(popped.rest)
                             /\ pc' = "generate"
                             /\ UNCHANGED <<printed, exitStatus, error>>
                        ELSE /\ Uncaught("MalformedRowError")
                             /\ UNCHANGED categories
    /\ UNCHANGED << records, withHeader, inFile, outFile0, outFile, inHandle,
                    outHandle, lines, lineIdx, page, catIdx, entIdx,
                    itemsOrder, clock >>

\* generate_keepass_xml_document, lines 126-127: the empty tree.
GenerateDocument ==
    /\ pc = "generate"
    /\ page' = <<>>
    /\ catIdx' = 1
    /\ itemsOrder' \in ItemsOrders
    /\ pc' = IF categories = <<>> THEN "write_output" ELSE "add_category"
    /\ UNCHANGED << records, withHeader, inFile, outFile0, outFile, inHandle,
                    outHandle, lines, lineIdx, entries, categories, entIdx,
                    clock, printed, exitStatus, error >>

\* add_category, lines 134-138: the group element, its title and icon.
AddCategory ==
    /\ pc = "add_category"
    /\ page' = Append(page, [title |-> categories[catIdx][1], icon |-> <<"0">>,
                             entry |-> <<>>])
    /\ entIdx' = 1
    /\ pc' = "add_entry"
    /\ UNCHANGED << records, withHeader, inFile, outFile0, outFile, inHandle,
                    outHandle, lines, lineIdx, entries, categories, catIdx,
                    itemsOrder, clock, printed, exitStatus, error >>

\* add_entry for one entry of the category (line 140).
AddEntry ==
    /\ pc = "add_entry"
    /\ LET list == categories[catIdx][2]
           element == EntryElement(list[entIdx], clock, itemsOrder)
       IN  /\ page' = [page EXCEPT ![catIdx].entry = Append(@, element)]
           /\ IF entIdx < Len(list)
              THEN /\ entIdx' = entIdx + 1
                   /\ UNCHANGED <<pc, catIdx>>
              ELSE /\ entIdx' = 1
                   /\ catIdx' = catIdx + 1
                   /\ pc' = IF catIdx < Len(categories)
                            THEN "add_category" ELSE "write_output"
    /\ UNCHANGED << records, withHeader, inFile, outFile0, outFile, inHandle,
                    outHandle, lines, lineIdx, entries, categories,
                    itemsOrder, clock, printed, exitStatus, error >>

\* The clock reaches the next minute before a call of add_entry.
Tick ==
    /\ pc = "add_entry"
    /\ clock < MaxTicks
    /\ clock' = clock + 1
    /\ UNCHANGED << pc, records, withHeader, inFile, outFile0, outFile,
                    inHandle, outHandle, lines, lineIdx, entries, categories,
                    page, catIdx, entIdx, itemsOrder, printed, exitStatus,
                    error >>

\* write_output.
WriteOutput ==
    /\ pc = "write_output"
    /\ outFile' = DocumentFile(page)
    /\ pc' = "report"
    /\ UNCHANGED << records, withHeader, inFile, outFile0, inHandle, outHandle,
                    lines, lineIdx, entries, categories, page, catIdx, entIdx,
                    itemsOrder, clock, printed, exitStatus, error >>

\* Lines 31-35: the success message; main returns, exit status 0.
ReportSuccess ==
    /\ pc = "report"
    /\ printed' = Append(printed, "success")
    /\ exitStatus' = 0
    /\ pc' = "exited"
    /\ UNCHANGED << records, withHeader, inFile, outFile0, outFile, inHandle,
                    outHandle, lines, lineIdx, entries, categories, page,
                    catIdx, entIdx, itemsOrder, clock, error >>

Next ==
    \/ GetFilePaths
    \/ OpenInput
    \/ OpenOutput
    \/ NormalizeLine
    \/ CloseHandles
    \/ ReadTempFile
    \/ GenerateDocument
    \/ AddCategory
    \/ AddEntry
    \/ Tick
    \/ WriteOutput
    \/ ReportSuccess

Spec == Init /\ [][Next]_vars

(***************************************************************************)
(* Properties.                                                             *)
(***************************************************************************)
\* The normalizer has finished and the file at the output path holds the
\* normalized text.
Normalized == pc = "read_temp_file"

\* read_temp_file has returned: entries and categories are set.
Grouped ==
    \/ pc \in {"generate", "add_category", "add_entry", "write_output", "report"}
    \/ pc = "exited" /\ error = "none"

\* The run went past the normalizer.
BuilderRan ==
    /\ pc \in {"generate", "add_category", "add_entry", "write_output",
               "report", "exited"}
    /\ error \notin {"MissingArgument", "FileReadError", "FileWriteError"}

\* Every record of the raw export is on one physical line.
SingleLineRecords == \A i \in 1..Len(records) : ~HasBreak(records[i].note)

\* The entry elements of the document built so far.
EntryElements ==
    UNION {{page[g].entry[e] : e \in 1..Len(page[g].entry)} : g \in 1..Len(page)}

IsPrinted(message) == \E i \in 1..Len(printed) : printed[i] = message

\* C1, as the claim states it: when every record, the header included, is on
\* one physical line, the normalized text is the concatenation over all input
\* lines of a line break followed by the trimmed line.
C1_EveryLineBreakThenTrimmed ==
    (Normalized /\ SingleLineRecords) =>
        outFile.text = Flatten([i \in 1..Len(lines) |-> <<NL>> \o Strip(lines[i])])

\* C1, amended: when every record is on one physical line, the normalized
\* text is the header line (if any) with its line break replaced by the
\* sentinel and no line break before it, followed, for every record line
\* (each begins with http), by a line break and the trimmed line.
C1_SingleLineRecordsNormalized ==
    (Normalized /\ SingleLineRecords) =>
        outFile.text =
            (IF withHeader
             THEN SubSeq(HeaderLine, 1, Len(HeaderLine) - 1) \o Sentinel
             ELSE <<>>)
            \o Flatten([i \in 1..Len(records) |->
                            <<NL>> \o Strip(ExportRecord(records[i]))])

C1_Witness ==
    Normalized /\ SingleLineRecords /\ withHeader /\ Len(records) = 2

\* C2: for a record whose note holds line breaks, the comment of its entry
\* element (normalized, parsed, sentinel replaced by a line break) is the
\* original note.
C2_NoteRoundTrip ==
    (pc = "write_output" /\ withHeader) =>
        \A i \in 1..Len(records) :
            HasBreak(records[i].note) =>
                \E element \in EntryElements :
                    /\ Child(element, "url") = records[i].url
                    /\ Child(element, "lastaccess") = records[i].grp
                    /\ Child(element, "comment") = records[i].note

\* C3: grouping is a partition of the data rows: each group holds exactly
\* the rows whose field 5 is its key, in their order, no key occurs twice,
\* every row's key is the key of a group, and the groups together hold as
\* many rows as there are data rows.
C3_GroupingIsPartition ==
    Grouped =>
        /\ \A k \in 1..Len(categories) :
            /\ categories[k][2] # <<>>
            /\ categories[k][2] =
                   SelectSeq(entries, LAMBDA e : Field(e, 5) = categories[k][1])
            /\ \A j \in 1..Len(categories) :
                   categories[j][1] = categories[k][1] => j = k
        /\ \A i \in 1..Len(entries) :
            \E k \in 1..Len(categories) : categories[k][1] = Field(entries[i], 5)
        /\ Len(Flatten([k \in 1..Len(categories) |-> categories[k][2]]))
               = Len(entries)

C3_Witness == Grouped /\ Len(entries) = 2 /\ Len(categories) = 1

C6_TenChildrenInOrder ==
    \A g \in 1..Len(page) : \A e \in 1..Len(page[g].entry) :
        LET element == page[g].entry[e]
            row == categories[g][2][e]
        IN  /\ ChildNames(element) = LiteralOrder
            /\ Child(element, "title") = Field(row, 4)
            /\ Child(element, "username") = Field(row, 1)
            /\ Child(element, "password") = Field(row, 2)
            /\ Child(element, "url") = Field(row, 0)
            /\ Child(element, "lastaccess") = Field(row, 5)
            /\ Child(element, "icon") = <<"0">>
            /\ Child(element, "expire") = << "N", "e", "v", "e", "r" >>

\* C7: a run that met an error ends with a non-zero exit status and without
\* the success message.
C7_ErrorsExitNonZero ==
    (pc = "exited" /\ error # "none") =>
        /\ exitStatus # 0
        /\ ~IsPrinted("success")

\* C8: the pairs returned by sort_entries_by_category are in the order of
\* their entry lists, compared row by row and field by field.
C8_OrderedByEntryList ==
    Grouped =>
        \A k \in 1..(Len(categories) - 1) :
            ListCmp(categories[k][2], categories[k + 1][2]) <= 0

C8_Witness ==
    /\ Grouped
    /\ Len(categories) = 2
    /\ StrCmp(categories[1][1], categories[2][1]) > 0

\* C9: when the run has ended, no file handle it opened is still open.
C9_HandlesReleased ==
    pc = "exited" => (inHandle # "open" /\ outHandle # "open")

\* C10: a run that ends for a missing argument or an unreadable input path
\* leaves the file at the output path as it was before the run.
C10_OutputUntouched ==
    /\ pc \in {"get_file_paths", "open_input"} => outFile = outFile0
    /\ error \in {"MissingArgument", "FileReadError"} => outFile = outFile0

C10_Witness == pc = "exited" /\ error = "FileReadError" /\ outFile0.exists

====
